---- MODULE Spec2Model ----
\* Cotton Cloud backend: the in-memory image cache (services.ImageCache), its
\* background sweep, and the AI handlers that thread a cache id through the
\* generate -> refine -> clear flow (handlers.AIHandler).
\*
\* Time is counted in minutes.  Every request-handling goroutine is a process
\* of Procs; the cleanup goroutine started by NewImageCache is the Sweeper.
\* One TLA+ step is one statement of the code that touches shared state (a
\* lock operation, a map access, a clock read, a provider call); statements
\* that touch only the goroutine's own locals ride along with the step before
\* them, so a handler's reaction to what Store, Get or Delete returned is part
\* of the step in which that operation unlocks and returns.
EXTENDS Integers, FiniteSets, Sequences, TLC

\* ---------------------------------------------------------------- bounds
NumProcs  == 2     \* concurrent request goroutines
MaxIds    == 2     \* cache ids the random generator can hand out in a run
MaxAge    == 35    \* the clock stops rather than age an entry beyond this
MaxAvatars == 2    \* avatar rows ever created in a run

\* ------------------------------------------------------ program constants
Expiry      == 30  \* cleanup: expiry := 30 * time.Minute
SweepPeriod == 5   \* cleanupLoop: time.NewTicker(5 * time.Minute)

\* The clock is observed at the instants the ticker fires.
ClockStep == SweepPeriod

Procs   == 1..NumProcs
Sweeper == NumProcs + 1
Ids     == 1..MaxIds

\* Request bodies.  An upload is the (imageBase64, mimeType) pair of a
\* generate-cutout request; the "!!..." payloads are not base64, one longer
\* and one shorter than the 30 characters decodeBase64Image prints of it.
Malformed      == "!!this-is-not-base64-and-is-over-30-chars"
MalformedShort == "!!bad"
Uploads ==
  { [img |-> "imgA", mime |-> "image/jpeg"],
    [img |-> Malformed, mime |-> "image/png"],
    [img |-> MalformedShort, mime |-> "image/png"] }
Cutouts == {"cutX"}

\* The payloads of the other endpoints: also a well-formed payload behind a
\* data-URI prefix.
DataURI  == "data:image/jpeg;base64,imgA"
Payloads == {"imgA", Malformed, MalformedShort, DataURI}

\* itemImages of a collage request
ItemLists ==
  { << >>, << Malformed >>, << MalformedShort, Malformed >>,
    << Malformed, "imgA" >>, << "imgA", "imgA" >>, << DataURI >> }
\* of a try-on request
TryOnLists == { << >>, << Malformed, "imgA" >> }

\* A provider response is a sequence of candidates, a candidate the sequence
\* of the parts of its content, a part a text or a blob.
\* A text is the sequence of its tokens, a blob its bytes as a string.
Text(t) == [kind |-> "text", text |-> t, data |-> ""]
Blob(d) == [kind |-> "blob", text |-> << >>, data |-> d]

Failed(k)   == [kind |-> k, candidates |-> << >>]
Response(c) == [kind |-> "resp", candidates |-> c]

\* What a provider call for a cutout can come back with: an error, the
\* deadline, no candidate, a candidate without a blob, a candidate with one.
ProviderOutcomes ==
  { Failed("error"), Failed("timeout"),
    Response(<< >>),
    Response(<< << Text("sorry") >> >>),
    Response(<< << Blob("cutout") >> >>) }

VARIABLES
  entries,      \* ImageCache.entries: cache id -> CacheEntry
  mu,           \* ImageCache.mu: [writers, readers] holding the RWMutex
  tickPending,  \* ticker.C (capacity 1) holds a tick
  spc,          \* the cleanup goroutine's position
  gemini,       \* AIHandler.gemini: "nil" or "configured"
  pc,           \* per request goroutine: position
  op,           \* per request goroutine: the handler or operation it runs
  req,          \* per request goroutine: the bound request body
  loc,          \* per request goroutine: locals
  resp,         \* per request goroutine: the response written by c.JSON
  fate,         \* history: per id, "none" (never handed out), "live",
                \*          "deleted" (taken out by Delete) or "swept" (taken
                \*          out by a sweep when older than Expiry)
  stored,       \* history: per id, the (payload, subtype) Store was called
                \*          with, kept while the fate is "live"
  abs,          \* history: the cache as a sequential map, changed at each
                \*          operation's linearization point
  delTrue,      \* history: per id, Delete calls that returned true (capped)
  sessions,     \* history: ids a generate-cutout response has handed out
  db            \* AvatarHandler.db: the avatar_profiles table (avatars: id ->
                \*          row) and the number of ids uuid.New has handed out

vars == << entries, mu, tickPending, spc, gemini,
           pc, op, req, loc, resp, fate, stored, abs, delTrue, sessions,
           db >>

cacheVars == << entries, mu, abs >>
histVars  == << fate, stored, delTrue, sessions >>
procVars  == << pc, op, req, loc, resp >>

\* ------------------------------------------------------------- helpers
NoReq  == [ok |-> TRUE, img |-> "", mime |-> "", cacheId |-> {}, cur |-> "",
           items |-> << >>, userId |-> "", avatarId |-> {}, name |-> ""]
\* cacheID .. err are the handler's and the cache operation's locals (entry
\* holds the fields of *entry that time does not change); budget is the
\* timeout, in seconds, of the context the provider is called under and
\* ctxDone whether its deadline has passed; parts counts the images put in
\* the provider request.  The rest is history: got, what the last provider
\* call of one of the other endpoints came back with; lin, whether what the cache operation returned is what
\* the sequential map abs returns at the operation's linearization point;
\* calls, the provider calls the request has issued.  avatar is the row an
\* avatar handler has read with db.First.
NoLoc  == [cacheID |-> {}, entry |-> {}, exists |-> FALSE,
           deleted |-> FALSE, count |-> 0, called |-> FALSE, err |-> FALSE,
           lin |-> TRUE, calls |-> 0, budget |-> 0, ctxDone |-> FALSE,
           parts |-> 0, got |-> {}, avatar |-> {}]
NoResp == [status |-> 0, cacheId |-> {}, image |-> "", success |-> FALSE,
           kind |-> "", analysis |-> "", url |-> ""]

TheOne(S) == CHOOSE x \in S : TRUE

MapPut(m, k, v) == [i \in DOMAIN m \cup {k} |-> IF i = k THEN v ELSE m[i]]
MapDel(m, k)    == [i \in DOMAIN m \ {k} |-> m[i]]
MapKeep(m, K)   == [i \in K |-> m[i]]
EmptyMap        == [i \in {} |-> 0]

Min(a, b) == IF a < b THEN a ELSE b

\* --------------------------------------------------------- sync.RWMutex
CanLock_IgnoresHolders(m) == TRUE
CanLock(m) == m.writers = {} /\ m.readers = {}

CanRLock_IgnoresWriter(m) == TRUE
CanRLock(m) == m.writers = {}

Lock(m, h)    == [m EXCEPT !.writers = @ \cup {h}]
Unlock_Deferred(m, h) == m
Unlock(m, h)  == [m EXCEPT !.writers = @ \ {h}]
RLock(m, h)   == [m EXCEPT !.readers = @ \cup {h}]
RUnlock(m, h) == [m EXCEPT !.readers = @ \ {h}]

\* ------------------------------------------------------------ CacheEntry
\* The clock enters the program only through now.Sub(entry.CreatedAt), so an
\* entry carries Age = time.Now() - CreatedAt in place of CreatedAt: Store
\* writes Age 0 (CreatedAt: time.Now()) and the passing of time adds to it.
CacheEntry(img, mime) ==
  [OriginalImageBase64 |-> img, MimeType |-> mime, Age |-> 0]

\* cleanup's test: now.Sub(entry.CreatedAt) > expiry
Expired_AtBoundary(e) == e.Age >= Expiry
Expired_Never(e) == FALSE
Expired(e) == e.Age > Expiry

Older(m, d) == [i \in DOMAIN m |-> [m[i] EXCEPT !.Age = @ + d]]

\* generateCacheID: 16 bytes of crypto/rand, hex-encoded.  The 128 bits of
\* entropy are modelled as a draw among the ids not handed out before.
issued == {i \in Ids : fate[i] # "none"}
FreshIds == Ids \ issued

\* The goroutines inside Store that have not drawn their id yet: a request is
\* admitted only while an id is left for it.
Storing == {q \in Procs : pc[q] \in {"st_lock", "st_put"}}

Init ==
  /\ entries = EmptyMap
  /\ mu = [writers |-> {}, readers |-> {}]
  /\ tickPending = FALSE
  /\ spc = "wait"
  /\ gemini \in {"nil", "configured"}
  /\ pc = [p \in Procs |-> "idle"]
  /\ op = [p \in Procs |-> ""]
  /\ req = [p \in Procs |-> NoReq]
  /\ loc = [p \in Procs |-> NoLoc]
  /\ resp = [p \in Procs |-> NoResp]
  /\ fate = [i \in Ids |-> "none"]
  /\ stored = [i \in Ids |-> {}]
  /\ abs = EmptyMap
  /\ delTrue = [i \in Ids |-> 0]
  /\ sessions = {}
  /\ db = [avatars |-> EmptyMap, uuids |-> 0]

\* ------------------------------------------------- clock and the ticker
\* SweepPeriod minutes pass and the ticker fires; time.Ticker drops the tick
\* when ticker.C still holds the last one.
AdvanceClock ==
  /\ \A i \in DOMAIN entries : entries[i].Age + ClockStep <= MaxAge
  /\ entries' = Older(entries, ClockStep)
  /\ abs' = Older(abs, ClockStep)
  /\ tickPending' = TRUE
  /\ UNCHANGED << mu, spc, gemini, db, procVars, histVars >>

\* ------------------------------------------- cleanupLoop and cleanup
\* for range ticker.C { c.cleanup() }: the tick is received and cleanup
\* takes c.mu.Lock()
SweepLock ==
  /\ spc = "wait"
  /\ tickPending
  /\ CanLock(mu)
  /\ tickPending' = FALSE
  /\ mu' = Lock(mu, Sweeper)
  /\ spc' = "scan"
  /\ UNCHANGED << entries, abs, gemini, db, procVars, histVars >>

\* now := time.Now(); for id, entry := range c.entries { if now.Sub(
\* entry.CreatedAt) > expiry { delete(c.entries, id) } }; Unlock
SweepScan ==
  /\ spc = "scan"
  /\ entries' = MapKeep(entries,
                  {i \in DOMAIN entries : ~Expired(entries[i])})
  /\ abs' = MapKeep(abs, {i \in DOMAIN abs : ~Expired(abs[i])})
  /\ LET gone == {i \in DOMAIN entries \ DOMAIN entries' :
                    entries[i].Age > Expiry}
     IN /\ fate' = [i \in Ids |-> IF i \in gone THEN "swept" ELSE fate[i]]
        /\ stored' = [i \in Ids |-> IF i \in gone THEN {} ELSE stored[i]]
  /\ mu' = Unlock(mu, Sweeper)
  /\ spc' = "wait"
  /\ UNCHANGED << tickPending, gemini, db, procVars, delTrue, sessions >>

\* ------------------------------------------------------- process frames
Others == << tickPending, spc, gemini, db >>

Goto(p, l) == pc' = [pc EXCEPT ![p] = l]

\* c.JSON(status, body) followed by return
Respond(p, r) ==
  /\ resp' = [resp EXCEPT ![p] = r]
  /\ pc' = [pc EXCEPT ![p] = "done"]

BadRequest == [NoResp EXCEPT !.status = 400, !.kind = "bind-error"]

Unconfigured_Never(g) == FALSE
\* if h.gemini == nil
Unconfigured(g) == g = "nil"

\* Request goroutines are interchangeable: a request is taken by the free
\* goroutine with the lowest number.
Free(p) == pc[p] = "idle" /\ \A q \in Procs : q < p => pc[q] # "idle"

\* -------------------------------------------------- decodeBase64Image
\* base64.StdEncoding.DecodeString succeeds: the payload is in the base64
\* alphabet (neither "!" nor the ":", ";" and "," of a data-URI prefix are)
Base64Valid(s) == s \notin {Malformed, MalformedShort, DataURI}

\* strings.Cut(imageBase64, ","): what follows the first comma, if any
AfterComma(s) == IF s = DataURI THEN "imgA" ELSE s

\* DecodeString on what follows the data-URI prefix; the error path prints
\* imageBase64[:30], which panics when the payload is shorter
decodeBase64Image(s) ==
  IF Base64Valid(AfterComma(s)) THEN "ok"
  ELSE IF Len(AfterComma(s)) < 30 THEN "panic" ELSE "err"

\* base64.StdEncoding.EncodeToString(blob.Data): empty for no bytes
EncodeToString(d) == IF d = "" THEN "" ELSE "b64:" \o d

\* the data of the first blob among the parts, if any
RECURSIVE FirstBlob(_)
FirstBlob(parts) ==
  IF parts = << >> THEN {}
  ELSE IF Head(parts).kind = "blob" THEN {Head(parts).data}
  ELSE FirstBlob(Tail(parts))

extractImageFromResponse_LastCandidate(o) ==
  IF Len(o.candidates) = 0 THEN [err |-> TRUE, image |-> ""]
  ELSE LET b == FirstBlob(o.candidates[Len(o.candidates)])
       IN IF b = {} THEN [err |-> TRUE, image |-> ""]
          ELSE [err |-> FALSE, image |-> EncodeToString(TheOne(b))]

\* extractImageFromResponse on a response the provider sent back
extractImageFromResponse(o) ==
  IF Len(o.candidates) = 0 THEN [err |-> TRUE, image |-> ""]
  ELSE LET b == FirstBlob(o.candidates[1])
       IN IF b = {} THEN [err |-> TRUE, image |-> ""]
          ELSE [err |-> FALSE, image |-> EncodeToString(TheOne(b))]

\* what an image method of GeminiService returns for a provider outcome:
\* GenerateContent's error wrapped, or extractImageFromResponse's result
ImageResult(o) ==
  IF o.kind # "resp" THEN [err |-> TRUE, image |-> ""]
  ELSE extractImageFromResponse(o)

Budget_Uniform(h) == 30
\* context.WithTimeout(c.Request.Context(), n * time.Second) per handler
Budget(h) ==
  CASE h \in {"AnalyzeClothing", "RefineAnalysis"} -> 30
    [] h \in {"GenerateCutout", "RefineCutout", "GenerateCollage"} -> 60
    [] h \in {"GenerateAvatar", "VirtualTryOn"} -> 90

\* the handler's locals once it has issued a provider call
Calling(h, l) ==
  [l EXCEPT !.called = TRUE, !.calls = @ + 1, !.budget = Budget(h)]

\* gin's Recovery middleware answers a panicking handler with a bare 500
Panicked == [NoResp EXCEPT !.status = 500, !.kind = "panic"]

\* ------------------------------------------------------------ responses
GenerateCutoutOK(id, image) ==
  [NoResp EXCEPT !.status = 200, !.cacheId = {id}, !.image = image,
                 !.kind = "ok"]
GenerateCutoutPlaceholder(id) ==
  [NoResp EXCEPT !.status = 200, !.cacheId = {id}, !.kind = "placeholder"]
ServerError == [NoResp EXCEPT !.status = 500, !.kind = "error"]
SessionExpired ==
  [NoResp EXCEPT !.status = 400, !.kind = "session-expired"]
RefineCutoutOK_NoEcho(id, image) ==
  [NoResp EXCEPT !.status = 200, !.image = image, !.kind = "ok"]
RefineCutoutOK(id, image) ==
  [NoResp EXCEPT !.status = 200, !.cacheId = id, !.image = image,
                 !.kind = "ok"]
RefineCutoutPlaceholder(id, cur) ==
  [NoResp EXCEPT !.status = 200, !.cacheId = id, !.image = cur,
                 !.kind = "placeholder"]
Cleared_AlwaysTrue(deleted) ==
  [NoResp EXCEPT !.status = 200, !.success = TRUE, !.kind = "cleared"]
Cleared(deleted) ==
  [NoResp EXCEPT !.status = 200, !.success = deleted, !.kind = "cleared"]

\* ------------------------------------------- AIHandler.GenerateCutout
\* ShouldBindJSON, then cache.Store(req.ImageBase64, req.MimeType) is entered
GenerateCutoutStart(p) ==
  /\ Free(p)
  /\ Cardinality(FreshIds) > Cardinality(Storing)
  /\ op' = [op EXCEPT ![p] = "GenerateCutout"]
  /\ \/ /\ req' = [req EXCEPT ![p].ok = FALSE]
        /\ Respond(p, BadRequest)
     \/ /\ \E u \in Uploads :
             req' = [req EXCEPT ![p].img = u.img, ![p].mime = u.mime]
        /\ Goto(p, "st_lock")
        /\ UNCHANGED resp
  /\ UNCHANGED << cacheVars, loc, histVars, Others >>

\* if err != nil { cache.Delete(cacheID); c.JSON(500, ...) }
RollbackOnError_Skipped == FALSE
RollbackOnError == TRUE

\* h.gemini.GenerateCutout returned an error
GenerateCutoutError(p, l) ==
  IF RollbackOnError
  THEN /\ loc' = [loc EXCEPT ![p] = l]
       /\ Goto(p, "del_lock")
       /\ UNCHANGED resp
  ELSE /\ loc' = [loc EXCEPT ![p] = l]
       /\ Respond(p, ServerError)

\* Store has returned cacheID.  if h.gemini == nil: the placeholder with the
\* cacheId.  Otherwise GeminiService.GenerateCutout: decode the image, and on
\* success issue imageModel.GenerateContent under the 60 s context.
GenerateCutoutAfterStore(p, id) ==
  LET l == [loc[p] EXCEPT !.cacheID = {id}]
  IN IF Unconfigured(gemini)
     THEN /\ loc' = [loc EXCEPT ![p] = l]
          /\ Respond(p, GenerateCutoutPlaceholder(id))
          /\ sessions' = sessions \cup {id}
     ELSE IF decodeBase64Image(req[p].img) = "err"
     THEN /\ GenerateCutoutError(p, [l EXCEPT !.err = TRUE])
          /\ UNCHANGED sessions
     ELSE IF decodeBase64Image(req[p].img) = "panic"
     THEN /\ loc' = [loc EXCEPT ![p] = [l EXCEPT !.err = TRUE]]
          /\ Respond(p, Panicked)
          /\ UNCHANGED sessions
     ELSE /\ loc' = [loc EXCEPT ![p] = Calling(op[p], l)]
          /\ Goto(p, "gc_wait")
          /\ UNCHANGED << resp, sessions >>

\* the provider call returns, fails or runs into the deadline
GenerateCutoutProviderReturn(p) ==
  /\ pc[p] = "gc_wait"
  /\ \E o \in ProviderOutcomes :
       IF ~ImageResult(o).err
       THEN /\ Respond(p, GenerateCutoutOK(TheOne(loc[p].cacheID),
                                           ImageResult(o).image))
            /\ sessions' = sessions \cup loc[p].cacheID
            /\ UNCHANGED loc
       ELSE /\ GenerateCutoutError(p,
                 [loc[p] EXCEPT !.err = TRUE,
                                !.ctxDone = (o.kind = "timeout")])
            /\ UNCHANGED sessions
  /\ UNCHANGED << cacheVars, op, req, fate, stored, delTrue, Others >>

\* --------------------------------------------- AIHandler.RefineCutout
\* ShouldBindJSON, then cache.Get(req.CacheID) is entered
RefineCutoutStart(p) ==
  /\ Free(p)
  /\ op' = [op EXCEPT ![p] = "RefineCutout"]
  /\ \/ /\ req' = [req EXCEPT ![p].ok = FALSE]
        /\ Respond(p, BadRequest)
     \/ /\ \E id \in Ids, cur \in Cutouts :
             req' = [req EXCEPT ![p].cacheId = {id}, ![p].cur = cur]
        /\ Goto(p, "get_rlock")
        /\ UNCHANGED resp
  /\ UNCHANGED << cacheVars, loc, histVars, Others >>

\* if !exists { c.JSON(400, "Cache expired or not found...") ; return }
RefineCutoutMissing_Ignored(exists) == FALSE
RefineCutoutMissing(exists) == ~exists

\* GeminiService.RefineCutout(original, currentCutout, feedback, mimeType):
\* both images are decoded before the provider is called
RefineCutoutDecode(original, cur) ==
  IF decodeBase64Image(original) # "ok" THEN decodeBase64Image(original)
  ELSE decodeBase64Image(cur)

\* Get has returned (entry, exists)
RefineCutoutAfterGet(p, l) ==
  IF RefineCutoutMissing(l.exists)
  THEN /\ loc' = [loc EXCEPT ![p] = l]
       /\ Respond(p, SessionExpired)
  ELSE IF Unconfigured(gemini)
  THEN /\ loc' = [loc EXCEPT ![p] = l]
       /\ Respond(p, RefineCutoutPlaceholder(req[p].cacheId, req[p].cur))
  ELSE IF RefineCutoutDecode(IF l.entry = {} THEN ""
                             ELSE TheOne(l.entry).OriginalImageBase64,
                             req[p].cur) # "ok"
  THEN /\ loc' = [loc EXCEPT ![p] = [l EXCEPT !.err = TRUE]]
       /\ Respond(p, IF RefineCutoutDecode(
                          TheOne(l.entry).OriginalImageBase64,
                          req[p].cur) = "panic"
                     THEN Panicked ELSE ServerError)
  ELSE /\ loc' = [loc EXCEPT ![p] = Calling(op[p], l)]
       /\ Goto(p, "rc_wait")
       /\ UNCHANGED resp

\* the map after RefineCutout's error path: if err != nil { c.JSON(500,
\* ...); return } calls no cache operation (GenerateCutout's calls Delete)
RefineErrorMap_Rollback(m, id) == MapDel(m, id)
RefineErrorMap(m, id) == m

\* the provider call returns, fails or runs into the deadline
RefineCutoutProviderReturn(p) ==
  /\ pc[p] = "rc_wait"
  /\ \E o \in ProviderOutcomes :
       IF ~ImageResult(o).err
       THEN /\ Respond(p, RefineCutoutOK(req[p].cacheId,
                                         ImageResult(o).image))
            /\ UNCHANGED << loc, entries >>
       ELSE /\ loc' = [loc EXCEPT ![p].err = TRUE,
                                  ![p].ctxDone = (o.kind = "timeout")]
            /\ entries' = RefineErrorMap(entries, TheOne(req[p].cacheId))
            /\ Respond(p, ServerError)
  /\ UNCHANGED << mu, abs, op, req, histVars, Others >>

\* ------------------------------------------ AIHandler.ClearImageCache
\* ShouldBindJSON, then cache.Delete(req.CacheID) is entered
ClearImageCacheStart(p) ==
  /\ Free(p)
  /\ op' = [op EXCEPT ![p] = "ClearImageCache"]
  /\ \/ /\ req' = [req EXCEPT ![p].ok = FALSE]
        /\ Respond(p, BadRequest)
     \/ /\ \E id \in Ids :
             req' = [req EXCEPT ![p].cacheId = {id}]
        /\ Goto(p, "del_lock")
        /\ UNCHANGED resp
  /\ UNCHANGED << cacheVars, loc, histVars, Others >>

\* Delete has returned: the 500 of GenerateCutout's rollback, or
\* ClearImageCache's c.JSON(200, {"success": deleted})
AfterDelete(p, l) ==
  /\ loc' = [loc EXCEPT ![p] = l]
  /\ Respond(p, IF op[p] = "GenerateCutout" THEN ServerError
                ELSE Cleared(l.deleted))

\* ------------------------------------------------------ ImageCache.Store
generateCacheID == FreshIds

StoreEntry_DropsMime(r) == CacheEntry(r.img, "")
StoreEntry(r) == CacheEntry(r.img, r.mime)

\* c.mu.Lock()
StoreLock(p) ==
  /\ pc[p] = "st_lock"
  /\ CanLock(mu)
  /\ mu' = Lock(mu, p)
  /\ Goto(p, "st_put")
  /\ UNCHANGED << entries, abs, op, req, loc, resp, histVars, Others >>

\* cacheID := generateCacheID(); c.entries[cacheID] = &CacheEntry{...,
\* CreatedAt: time.Now()}; Unlock; return cacheID
StoreInsert(p) ==
  /\ pc[p] = "st_put"
  /\ \E id \in generateCacheID :
       LET e == StoreEntry(req[p])
       IN /\ fate' = [fate EXCEPT ![id] = "live"]
          /\ stored' = [stored EXCEPT ![id] =
                          {[OriginalImageBase64 |-> req[p].img,
                            MimeType |-> req[p].mime]}]
          /\ entries' = MapPut(entries, id, e)
          /\ abs' = MapPut(abs, id, e)
          /\ GenerateCutoutAfterStore(p, id)
  /\ mu' = Unlock(mu, p)
  /\ UNCHANGED << op, req, delTrue, Others >>

\* -------------------------------------------------------- ImageCache.Get
GetFound_Always(m, id) == TRUE
GetFound(m, id) == id \in DOMAIN m

\* what Get returns: (entry, exists); a missing key yields the nil entry
GetResult(m, id) ==
  [exists |-> GetFound(m, id),
   entry |-> IF id \in DOMAIN m THEN {m[id]} ELSE {}]

\* the map after Get: Get only reads c.entries[cacheID]; neither the map nor
\* the entry it points to is written
GetMapAfter_Touches(m, id) ==
  IF id \in DOMAIN m THEN [m EXCEPT ![id].Age = 0] ELSE m
GetMapAfter(m, id) == m

Timeless(E) ==
  {[OriginalImageBase64 |-> e.OriginalImageBase64, MimeType |-> e.MimeType]
     : e \in E}

\* the id Get is called with
GetArg(p) == TheOne(req[p].cacheId)

\* c.mu.RLock()
GetRLock(p) ==
  /\ pc[p] = "get_rlock"
  /\ CanRLock(mu)
  /\ mu' = RLock(mu, p)
  /\ Goto(p, "get_read")
  /\ UNCHANGED << entries, abs, op, req, loc, resp, histVars, Others >>

\* entry, exists := c.entries[cacheID]; RUnlock; return entry, exists
GetRead(p) ==
  /\ pc[p] = "get_read"
  /\ LET id == TheOne(req[p].cacheId)
         got == GetResult(entries, id)
     IN RefineCutoutAfterGet(p,
          [loc[p] EXCEPT
             !.exists = got.exists,
             !.entry = Timeless(got.entry),
             !.lin = (got = [exists |-> id \in DOMAIN abs,
                             entry |-> IF id \in DOMAIN abs
                                       THEN {abs[id]} ELSE {}])])
  /\ entries' = GetMapAfter(entries, GetArg(p))
  /\ mu' = RUnlock(mu, p)
  /\ UNCHANGED << abs, op, req, histVars, Others >>

\* ----------------------------------------------------- ImageCache.Delete
\* the id Delete is called with: the handler's own cacheID on the rollback
\* of GenerateCutout, the request's cacheId in ClearImageCache
DeleteArg(p) ==
  IF op[p] = "GenerateCutout" THEN TheOne(loc[p].cacheID)
  ELSE TheOne(req[p].cacheId)

DeleteReturn_AlwaysTrue(exists) == TRUE
DeleteReturn(exists) == exists

\* c.mu.Lock()
DeleteLock(p) ==
  /\ pc[p] = "del_lock"
  /\ CanLock(mu)
  /\ mu' = Lock(mu, p)
  /\ Goto(p, "del_check")
  /\ UNCHANGED << entries, abs, op, req, loc, resp, histVars, Others >>

\* if _, exists := c.entries[cacheID]; exists
DeleteCheck(p) ==
  /\ pc[p] = "del_check"
  /\ loc' = [loc EXCEPT ![p].exists = DeleteArg(p) \in DOMAIN entries]
  /\ Goto(p, "del_rm")
  /\ UNCHANGED << entries, mu, abs, op, req, resp, histVars, Others >>

\* delete(c.entries, cacheID); return true  /  return false; Unlock
DeleteRemove(p) ==
  /\ pc[p] = "del_rm"
  /\ LET id  == DeleteArg(p)
         ret == DeleteReturn(loc[p].exists)
     IN /\ entries' = IF loc[p].exists THEN MapDel(entries, id) ELSE entries
        /\ abs' = MapDel(abs, id)
        /\ delTrue' = IF ret THEN [delTrue EXCEPT ![id] = Min(@ + 1, 2)]
                      ELSE delTrue
        /\ IF loc[p].exists /\ id \in DOMAIN entries
           THEN /\ fate' = [fate EXCEPT ![id] = "deleted"]
                /\ stored' = [stored EXCEPT ![id] = {}]
           ELSE UNCHANGED << fate, stored >>
        /\ AfterDelete(p, [loc[p] EXCEPT
                             !.deleted = ret,
                             !.lin = (ret = (id \in DOMAIN abs))])
  /\ mu' = Unlock(mu, p)
  /\ UNCHANGED << op, req, sessions, Others >>

\* ------------------------------------------------------ ImageCache.Count
CountStart(p) ==
  /\ Free(p)
  /\ op' = [op EXCEPT ![p] = "Count"]
  /\ Goto(p, "cnt_rlock")
  /\ UNCHANGED << cacheVars, req, loc, resp, histVars, Others >>

\* c.mu.RLock()
CountRLock(p) ==
  /\ pc[p] = "cnt_rlock"
  /\ CanRLock(mu)
  /\ mu' = RLock(mu, p)
  /\ Goto(p, "cnt_read")
  /\ UNCHANGED << entries, abs, op, req, loc, resp, histVars, Others >>

\* return len(c.entries); RUnlock
CountRead(p) ==
  /\ pc[p] = "cnt_read"
  /\ loc' = [loc EXCEPT
               ![p].count = Cardinality(DOMAIN entries),
               ![p].lin = (Cardinality(DOMAIN entries)
                           = Cardinality(DOMAIN abs))]
  /\ mu' = RUnlock(mu, p)
  /\ Goto(p, "done")
  /\ UNCHANGED << entries, abs, op, req, resp, histVars, Others >>

\* ------------------------------------------------ analysis text helpers
\* The tokens of a text part: code fences (the three backquotes written
\* as [fence]), white space, a JSON object with the fields of
\* ClothingAnalysis, the empty JSON object, prose.
Fence      == "[fence]"
FenceJSON  == "[fence]json"
Space      == " "
ObjectJSON == "{category:Dresses,color:Red,material:Silk}"
EmptyJSON  == "{}"
Prose      == "Sorry, I cannot help with that."

\* for _, part := range parts { if text, ok := part.(genai.Text) ... }
RECURSIVE extractTextFromParts(_)
extractTextFromParts(parts) ==
  IF parts = << >> THEN << >>
  ELSE IF Head(parts).kind = "text" THEN Head(parts).text
  ELSE extractTextFromParts(Tail(parts))

Front(t) == SubSeq(t, 1, Len(t) - 1)
Last(t)  == t[Len(t)]

RECURSIVE TrimLeft(_)
TrimLeft(t) ==
  IF t # << >> /\ Head(t) = Space THEN TrimLeft(Tail(t)) ELSE t
RECURSIVE TrimRight(_)
TrimRight(t) ==
  IF t # << >> /\ Last(t) = Space THEN TrimRight(Front(t)) ELSE t
\* strings.TrimSpace
TrimSpace(t) == TrimRight(TrimLeft(t))

HasPrefix(t, k) == t # << >> /\ Head(t) = k
HasSuffix(t, k) == t # << >> /\ Last(t) = k

\* TrimSpace; TrimPrefix [fence]json; TrimPrefix [fence]; TrimSuffix
\* [fence]; TrimSpace
cleanJSONResponse(text) ==
  LET a == TrimSpace(text)
      b == IF HasPrefix(a, FenceJSON) THEN Tail(a) ELSE a
      c == IF HasPrefix(b, Fence) THEN Tail(b) ELSE b
      d == IF HasSuffix(c, Fence) THEN Front(c) ELSE c
  IN TrimSpace(d)

Unmarshal_Lenient(text) ==
  IF text = << ObjectJSON >>
  THEN [err |-> FALSE, panic |-> FALSE, analysis |-> "Dresses/Red/Silk"]
  ELSE [err |-> FALSE, panic |-> FALSE, analysis |-> "//"]

\* json.Unmarshal([]byte(text), &analysis): a single JSON object decodes,
\* absent fields staying zero; anything else is an error
Unmarshal(text) ==
  IF text = << ObjectJSON >>
  THEN [err |-> FALSE, panic |-> FALSE, analysis |-> "Dresses/Red/Silk"]
  ELSE IF text = << EmptyJSON >>
  THEN [err |-> FALSE, panic |-> FALSE, analysis |-> "//"]
  ELSE [err |-> TRUE, panic |-> FALSE, analysis |-> ""]

AnalysisError == [err |-> TRUE, panic |-> FALSE, analysis |-> ""]
AnalysisPanic == [err |-> TRUE, panic |-> TRUE, analysis |-> ""]

\* What a provider call for an analysis can come back with.
AnalysisOutcomes ==
  { Failed("error"), Failed("timeout"),
    Response(<< >>),
    Response(<< << >> >>),
    Response(<< << Blob("cutout") >> >>),
    Response(<< << Text(<< ObjectJSON >>) >> >>),
    Response(<< << Text(<< EmptyJSON >>) >> >>),
    Response(<< << Text(<< Space, FenceJSON, Space, ObjectJSON, Space,
                           Fence, Space >>) >> >>),
    Response(<< << Text(<< Fence, ObjectJSON, Fence >>) >> >>),
    Response(<< << Text(<< Prose >>) >> >>),
    Response(<< << Text(<< FenceJSON, Prose, Fence >>) >> >>),
    Response(<< << Text(<< Prose, FenceJSON, ObjectJSON, Fence >>) >> >>) }

\* What a provider call for an image can come back with: also candidates
\* with several parts, and several candidates.
ImageOutcomes ==
  ProviderOutcomes \cup
  { Response(<< << >> >>),
    Response(<< << Text(<< Prose >>), Blob("first"), Blob("second") >> >>),
    Response(<< << Text(<< Prose >>) >>, << Blob("second") >> >>),
    Response(<< << Blob("first") >>, << Blob("second") >> >>),
    Response(<< << Blob("") >> >>) }

\* GeminiService.AnalyzeClothing from the provider's answer on
AnalyzeClothingResult(o) ==
  IF o.kind # "resp" THEN AnalysisError
  ELSE IF Len(o.candidates) = 0 \/ Len(o.candidates[1]) = 0
  THEN AnalysisError
  ELSE Unmarshal(cleanJSONResponse(extractTextFromParts(o.candidates[1])))

\* GeminiService.RefineClothingAnalysis from the provider's answer on:
\* whether it falls back to AnalyzeClothing, else what it returns.
\* resp.Candidates[0] is indexed without a length check.
Fallback(o) ==
  \/ o.kind # "resp"
  \/ /\ Len(o.candidates) > 0
     /\ Unmarshal(cleanJSONResponse(
          extractTextFromParts(o.candidates[1]))).err
RefineClothingAnalysisResult(o) ==
  IF Len(o.candidates) = 0 THEN AnalysisPanic
  ELSE Unmarshal(cleanJSONResponse(extractTextFromParts(o.candidates[1])))

\* ----------------------------------------- responses of the other handlers
AnalyzePlaceholder_Echo(img) ==
  [NoResp EXCEPT !.status = 200, !.kind = "placeholder", !.analysis = img]
\* the mock data of AnalyzeClothing
AnalyzePlaceholder(img) ==
  [NoResp EXCEPT !.status = 200, !.kind = "placeholder",
                 !.analysis = "Tops/White/Cotton"]
\* the mock data of RefineAnalysis
RefinePlaceholder ==
  [NoResp EXCEPT !.status = 200, !.kind = "placeholder",
                 !.analysis = "Tops/White/Cotton/refined"]
AnalysisOK(a) ==
  [NoResp EXCEPT !.status = 200, !.kind = "ok", !.analysis = a]
ImagePlaceholder(u) ==
  [NoResp EXCEPT !.status = 200, !.kind = "placeholder", !.url = u]
ImageOK(image) ==
  [NoResp EXCEPT !.status = 200, !.kind = "ok", !.image = image]

\* what the handler answers to the (value, error) of a service method
AnalysisResponse(r) ==
  IF r.panic THEN Panicked
  ELSE IF r.err THEN ServerError ELSE AnalysisOK(r.analysis)

\* the provider call of goroutine p has come back with o
Got(l, o) == [l EXCEPT !.got = {o}, !.ctxDone = (o.kind = "timeout")]

\* ------------------------------------------- AIHandler.AnalyzeClothing
\* ShouldBindJSON; the mock data if h.gemini == nil; else the 30 s context
\* and GeminiService.AnalyzeClothing up to GenerateContent
AnalyzeClothingStart(p) ==
  /\ Free(p)
  /\ op' = [op EXCEPT ![p] = "AnalyzeClothing"]
  /\ \/ /\ req' = [req EXCEPT ![p].ok = FALSE]
        /\ Respond(p, BadRequest)
        /\ UNCHANGED loc
     \/ \E img \in Payloads :
          /\ req' = [req EXCEPT ![p].img = img, ![p].mime = "image/jpeg"]
          /\ IF Unconfigured(gemini)
             THEN /\ Respond(p, AnalyzePlaceholder(img))
                  /\ UNCHANGED loc
             ELSE IF decodeBase64Image(img) = "err"
             THEN /\ loc' = [loc EXCEPT ![p].err = TRUE]
                  /\ Respond(p, ServerError)
             ELSE IF decodeBase64Image(img) = "panic"
             THEN /\ loc' = [loc EXCEPT ![p].err = TRUE]
                  /\ Respond(p, Panicked)
             ELSE /\ loc' = [loc EXCEPT
                       ![p] = Calling("AnalyzeClothing", @)]
                  /\ Goto(p, "an_wait")
                  /\ UNCHANGED resp
  /\ UNCHANGED << cacheVars, histVars, Others >>

\* GenerateContent returns; the text is extracted, cleaned and parsed
AnalyzeClothingProviderReturn(p) ==
  /\ pc[p] = "an_wait"
  /\ \E o \in AnalysisOutcomes :
       /\ loc' = [loc EXCEPT
            ![p] = [Got(@, o) EXCEPT !.err = AnalyzeClothingResult(o).err]]
       /\ Respond(p, AnalysisResponse(AnalyzeClothingResult(o)))
  /\ UNCHANGED << cacheVars, op, req, histVars, Others >>

\* -------------------------------------------- AIHandler.RefineAnalysis
RefineAnalysisStart(p) ==
  /\ Free(p)
  /\ op' = [op EXCEPT ![p] = "RefineAnalysis"]
  /\ \/ /\ req' = [req EXCEPT ![p].ok = FALSE]
        /\ Respond(p, BadRequest)
        /\ UNCHANGED loc
     \/ \E img \in Payloads :
          /\ req' = [req EXCEPT ![p].img = img, ![p].mime = "image/jpeg"]
          /\ IF Unconfigured(gemini)
             THEN /\ Respond(p, RefinePlaceholder)
                  /\ UNCHANGED loc
             ELSE IF decodeBase64Image(img) = "err"
             THEN /\ loc' = [loc EXCEPT ![p].err = TRUE]
                  /\ Respond(p, ServerError)
             ELSE IF decodeBase64Image(img) = "panic"
             THEN /\ loc' = [loc EXCEPT ![p].err = TRUE]
                  /\ Respond(p, Panicked)
             ELSE /\ loc' = [loc EXCEPT
                       ![p] = Calling("RefineAnalysis", @)]
                  /\ Goto(p, "ra_wait")
                  /\ UNCHANGED resp
  /\ UNCHANGED << cacheVars, histVars, Others >>

\* GenerateContent returns to RefineClothingAnalysis: on an error or an
\* unparsable text it calls s.AnalyzeClothing(ctx, ...), which decodes the
\* payload again and calls GenerateContent under the same context
RefineAnalysisProviderReturn(p) ==
  /\ pc[p] = "ra_wait"
  /\ \E o \in AnalysisOutcomes :
       IF Fallback(o)
       THEN /\ loc' = [loc EXCEPT
                 ![p] = Calling("RefineAnalysis", Got(@, o))]
            /\ Goto(p, "ra_fallback")
            /\ UNCHANGED resp
       ELSE /\ loc' = [loc EXCEPT
                 ![p] = [Got(@, o) EXCEPT
                           !.err = RefineClothingAnalysisResult(o).err]]
            /\ Respond(p, AnalysisResponse(RefineClothingAnalysisResult(o)))
  /\ UNCHANGED << cacheVars, op, req, histVars, Others >>

\* the fallback's GenerateContent returns; once the context's deadline has
\* passed it can only return the deadline error
RefineAnalysisFallbackReturn(p) ==
  /\ pc[p] = "ra_fallback"
  /\ \E o \in AnalysisOutcomes :
       /\ loc[p].ctxDone => o = Failed("timeout")
       /\ loc' = [loc EXCEPT
            ![p] = [Got(@, o) EXCEPT !.err = AnalyzeClothingResult(o).err]]
       /\ Respond(p, AnalysisResponse(AnalyzeClothingResult(o)))
  /\ UNCHANGED << cacheVars, op, req, histVars, Others >>

\* --------------------------------------------- the image-returning calls
\* GenerateContent returns to an image method, which ends with
\* return extractImageFromResponse(resp)
ImageProviderReturn(p, at) ==
  /\ pc[p] = at
  /\ \E o \in ImageOutcomes :
       /\ loc' = [loc EXCEPT
            ![p] = [Got(@, o) EXCEPT !.err = ImageResult(o).err]]
       /\ Respond(p, IF ImageResult(o).err THEN ServerError
                     ELSE ImageOK(ImageResult(o).image))
  /\ UNCHANGED << cacheVars, op, req, histVars, Others >>

\* -------------------------------------------- AIHandler.GenerateAvatar
GenerateAvatarStart(p) ==
  /\ Free(p)
  /\ op' = [op EXCEPT ![p] = "GenerateAvatar"]
  /\ \/ /\ req' = [req EXCEPT ![p].ok = FALSE]
        /\ Respond(p, BadRequest)
        /\ UNCHANGED loc
     \/ \E img \in Payloads :
          /\ req' = [req EXCEPT ![p].img = img, ![p].mime = "image/jpeg"]
          /\ IF Unconfigured(gemini)
             THEN /\ Respond(p, ImagePlaceholder(
                                  "https://picsum.photos/400/600"))
                  /\ UNCHANGED loc
             ELSE IF decodeBase64Image(img) = "err"
             THEN /\ loc' = [loc EXCEPT ![p].err = TRUE]
                  /\ Respond(p, ServerError)
             ELSE IF decodeBase64Image(img) = "panic"
             THEN /\ loc' = [loc EXCEPT ![p].err = TRUE]
                  /\ Respond(p, Panicked)
             ELSE /\ loc' = [loc EXCEPT
                       ![p] = Calling("GenerateAvatar", @)]
                  /\ Goto(p, "av_wait")
                  /\ UNCHANGED resp
  /\ UNCHANGED << cacheVars, histVars, Others >>

GenerateAvatarProviderReturn(p) == ImageProviderReturn(p, "av_wait")

\* ------------------------------------------- AIHandler.GenerateCollage
\* the images of the list that base64.StdEncoding.DecodeString decodes
RECURSIVE DecodedItems(_)
DecodedItems(items) ==
  IF items = << >> THEN << >>
  ELSE IF Base64Valid(Head(items))
  THEN << Head(items) >> \o DecodedItems(Tail(items))
  ELSE DecodedItems(Tail(items))

NoValidImages_Ignored(n) == FALSE
\* if len(parts) == 0 { return "", fmt.Errorf("no valid images provided") }
NoValidImages(n) == n = 0

GenerateCollageStart(p) ==
  /\ Free(p)
  /\ op' = [op EXCEPT ![p] = "GenerateCollage"]
  /\ \/ /\ req' = [req EXCEPT ![p].ok = FALSE]
        /\ Respond(p, BadRequest)
        /\ UNCHANGED loc
     \/ \E items \in ItemLists :
          /\ req' = [req EXCEPT ![p].items = items]
          /\ IF Unconfigured(gemini)
             THEN /\ Respond(p, ImagePlaceholder(
                                  "https://picsum.photos/600/800"))
                  /\ UNCHANGED loc
             ELSE IF NoValidImages(Len(DecodedItems(items)))
             THEN /\ loc' = [loc EXCEPT ![p].err = TRUE]
                  /\ Respond(p, ServerError)
             ELSE /\ loc' = [loc EXCEPT
                       ![p] = [Calling("GenerateCollage", @) EXCEPT
                                 !.parts = Len(DecodedItems(items))]]
                  /\ Goto(p, "co_wait")
                  /\ UNCHANGED resp
  /\ UNCHANGED << cacheVars, histVars, Others >>

GenerateCollageProviderReturn(p) == ImageProviderReturn(p, "co_wait")

\* ---------------------------------------------- AIHandler.VirtualTryOn
\* the avatar must decode (DecodeString, no data-URI handling); items that
\* do not decode are skipped
VirtualTryOnStart(p) ==
  /\ Free(p)
  /\ op' = [op EXCEPT ![p] = "VirtualTryOn"]
  /\ \/ /\ req' = [req EXCEPT ![p].ok = FALSE]
        /\ Respond(p, BadRequest)
        /\ UNCHANGED loc
     \/ \E img \in Payloads, items \in TryOnLists :
          /\ req' = [req EXCEPT ![p].img = img, ![p].items = items]
          /\ IF Unconfigured(gemini)
             THEN /\ Respond(p, ImagePlaceholder(
                                  "https://picsum.photos/400/600"))
                  /\ UNCHANGED loc
             ELSE IF ~Base64Valid(img)
             THEN /\ loc' = [loc EXCEPT ![p].err = TRUE]
                  /\ Respond(p, ServerError)
             ELSE /\ loc' = [loc EXCEPT
                       ![p] = [Calling("VirtualTryOn", @) EXCEPT
                                 !.parts = 1 + Len(DecodedItems(items))]]
                  /\ Goto(p, "vt_wait")
                  /\ UNCHANGED resp
  /\ UNCHANGED << cacheVars, histVars, Others >>

VirtualTryOnProviderReturn(p) == ImageProviderReturn(p, "vt_wait")

\* the goroutine ends; the next request starts from fresh locals
Return(p) ==
  /\ pc[p] = "done"
  /\ pc' = [pc EXCEPT ![p] = "idle"]
  /\ op' = [op EXCEPT ![p] = ""]
  /\ req' = [req EXCEPT ![p] = NoReq]
  /\ loc' = [loc EXCEPT ![p] = NoLoc]
  /\ resp' = [resp EXCEPT ![p] = NoResp]
  /\ UNCHANGED << cacheVars, histVars, Others >>

\* ------------------------------------------------------- specification
\* The requests that reach the cache: those whose body ShouldBindJSON
\* accepts (the others are answered 400 before the handler touches anything).
GenerateCutoutUpload(p) == GenerateCutoutStart(p) /\ req'[p].ok
RefineCutoutRequest(p) == RefineCutoutStart(p) /\ req'[p].ok
ClearImageCacheRequest(p) == ClearImageCacheStart(p) /\ req'[p].ok

\* NewAIHandler with GEMINI_API_KEY set: the provider is configured
Configured == Init /\ gemini = "configured"

Next ==
  \/ AdvanceClock
  \/ SweepLock
  \/ SweepScan
  \/ \E p \in Procs : GenerateCutoutUpload(p)
  \/ \E p \in Procs : StoreLock(p)
  \/ \E p \in Procs : StoreInsert(p)
  \/ \E p \in Procs : GenerateCutoutProviderReturn(p)
  \/ \E p \in Procs : RefineCutoutRequest(p)
  \/ \E p \in Procs : GetRLock(p)
  \/ \E p \in Procs : GetRead(p)
  \/ \E p \in Procs : RefineCutoutProviderReturn(p)
  \/ \E p \in Procs : ClearImageCacheRequest(p)
  \/ \E p \in Procs : DeleteLock(p)
  \/ \E p \in Procs : DeleteCheck(p)
  \/ \E p \in Procs : DeleteRemove(p)
  \/ \E p \in Procs : CountStart(p)
  \/ \E p \in Procs : CountRLock(p)
  \/ \E p \in Procs : CountRead(p)
  \/ \E p \in Procs : Return(p)

\* The cache, its sweep and the cutout endpoints with a configured provider.
Spec == Configured /\ [][Next]_vars

\* The endpoints that do not use the cache, on their own.
ClientNext ==
  \/ \E p \in Procs : AnalyzeClothingStart(p)
  \/ \E p \in Procs : AnalyzeClothingProviderReturn(p)
  \/ \E p \in Procs : RefineAnalysisStart(p)
  \/ \E p \in Procs : RefineAnalysisProviderReturn(p)
  \/ \E p \in Procs : RefineAnalysisFallbackReturn(p)
  \/ \E p \in Procs : GenerateAvatarStart(p)
  \/ \E p \in Procs : GenerateAvatarProviderReturn(p)
  \/ \E p \in Procs : GenerateCollageStart(p)
  \/ \E p \in Procs : GenerateCollageProviderReturn(p)
  \/ \E p \in Procs : VirtualTryOnStart(p)
  \/ \E p \in Procs : VirtualTryOnProviderReturn(p)
  \/ \E p \in Procs : Return(p)

ClientSpec == Init /\ [][ClientNext]_vars

\* The eight AI endpoints together, while no sweep is due.
ServeNext ==
  \/ \E p \in Procs : GenerateCutoutStart(p)
  \/ \E p \in Procs : StoreLock(p)
  \/ \E p \in Procs : StoreInsert(p)
  \/ \E p \in Procs : GenerateCutoutProviderReturn(p)
  \/ \E p \in Procs : RefineCutoutStart(p)
  \/ \E p \in Procs : GetRLock(p)
  \/ \E p \in Procs : GetRead(p)
  \/ \E p \in Procs : RefineCutoutProviderReturn(p)
  \/ \E p \in Procs : ClearImageCacheStart(p)
  \/ \E p \in Procs : DeleteLock(p)
  \/ \E p \in Procs : DeleteCheck(p)
  \/ \E p \in Procs : DeleteRemove(p)
  \/ \E p \in Procs : AnalyzeClothingStart(p)
  \/ \E p \in Procs : AnalyzeClothingProviderReturn(p)
  \/ \E p \in Procs : RefineAnalysisStart(p)
  \/ \E p \in Procs : RefineAnalysisProviderReturn(p)
  \/ \E p \in Procs : RefineAnalysisFallbackReturn(p)
  \/ \E p \in Procs : GenerateAvatarStart(p)
  \/ \E p \in Procs : GenerateAvatarProviderReturn(p)
  \/ \E p \in Procs : GenerateCollageStart(p)
  \/ \E p \in Procs : GenerateCollageProviderReturn(p)
  \/ \E p \in Procs : VirtualTryOnStart(p)
  \/ \E p \in Procs : VirtualTryOnProviderReturn(p)
  \/ \E p \in Procs : Return(p)

ServeSpec == Init /\ [][ServeNext]_vars

\* ------------------------------------- the cache under fair scheduling
\* sync.RWMutex gives a blocked writer precedence: cleanup's c.mu.Lock()
\* first announces the writer, and from then on RLock blocks until that
\* writer has had the lock.  The tick is received and Lock is called:
SweepAnnounce ==
  /\ spc = "wait"
  /\ tickPending
  /\ tickPending' = FALSE
  /\ spc' = "pending"
  /\ UNCHANGED << cacheVars, gemini, db, procVars, histVars >>

\* the announced Lock gets the mutex once writer and readers have left
SweepAcquire ==
  /\ spc = "pending"
  /\ CanLock(mu)
  /\ mu' = Lock(mu, Sweeper)
  /\ spc' = "scan"
  /\ UNCHANGED << entries, abs, tickPending, gemini, db, procVars, histVars >>

\* c.mu.RLock() while no writer is announced
GetRLockBehindWriter(p) == spc # "pending" /\ GetRLock(p)

\* the provider is unconfigured
Degraded == Init /\ gemini = "nil"

\* An unconfigured handler never looks at the payload: one upload stands
\* for all.
GenerateCutoutRequest(p) == GenerateCutoutUpload(p) /\ req'[p].img = "imgA"

EvictNext ==
  \/ AdvanceClock
  \/ SweepAnnounce
  \/ SweepAcquire
  \/ SweepScan
  \/ \E p \in Procs : GenerateCutoutRequest(p)
  \/ \E p \in Procs : StoreLock(p)
  \/ \E p \in Procs : StoreInsert(p)
  \/ \E p \in Procs : RefineCutoutRequest(p)
  \/ \E p \in Procs : GetRLockBehindWriter(p)
  \/ \E p \in Procs : GetRead(p)
  \/ \E p \in Procs : ClearImageCacheRequest(p)
  \/ \E p \in Procs : DeleteLock(p)
  \/ \E p \in Procs : DeleteCheck(p)
  \/ \E p \in Procs : DeleteRemove(p)
  \/ \E p \in Procs : Return(p)

\* Time passes and the ticker fires; the cleanup goroutine runs; a
\* goroutine that holds the mutex goes on to release it; sync.Mutex hands
\* the lock to a writer that has waited (starvation mode), so the announced
\* sweep is not overtaken for ever.
EvictFairness ==
  /\ WF_vars(AdvanceClock)
  /\ WF_vars(SweepAnnounce)
  /\ SF_vars(SweepAcquire)
  /\ WF_vars(SweepScan)
  /\ \A p \in Procs :
       /\ WF_vars(StoreInsert(p))
       /\ WF_vars(GetRead(p))
       /\ WF_vars(DeleteCheck(p))
       /\ WF_vars(DeleteRemove(p))

EvictSpec == Degraded /\ [][EvictNext]_vars /\ EvictFairness

\* ------------------------------------------------------- AvatarHandler
\* Every h.db call is one SQL statement, atomic in the database; the handlers
\* open no transaction, so the statements of concurrent requests interleave.
AvatarIds == 1..MaxAvatars
Users     == {"demo-user"}
Names     == {"Me", "Work"}

\* models.AvatarProfile, the columns the handlers decide on
AvatarRow(u, n, a) == [UserID |-> u, Name |-> n, IsActive |-> a]

\* WHERE user_id = u
OfUser(t, u) == {i \in DOMAIN t : t[i].UserID = u}

\* db.Save(&avatar) on a row with its primary key set: UPDATE of all columns
\* by id, and when that affects no row, gorm inserts the row
Save(t, id, row) == MapPut(t, id, row)

\* if count == 0 { avatar.IsActive = true }
FirstAvatar(count) == count = 0

\* .Where("user_id = ?", u).Update("is_active", false)
Deactivate(t, u) ==
  [i \in DOMAIN t |->
     IF t[i].UserID = u THEN [t[i] EXCEPT !.IsActive = FALSE] ELSE t[i]]

AvatarCreated == [NoResp EXCEPT !.status = 201, !.kind = "avatar"]
AvatarOK      == [NoResp EXCEPT !.status = 200, !.kind = "avatar"]
AvatarMissing == [NoResp EXCEPT !.status = 404, !.kind = "not-found"]

\* the Create requests that have not inserted their row yet: a request is
\* admitted only while an id is left for it
Creating == {q \in Procs : pc[q] \in {"avc_count", "avc_insert"}}

\* Create: ShouldBindJSON, user_id from the query
AvatarCreateStart(p) ==
  /\ Free(p)
  /\ db.uuids + Cardinality(Creating) < MaxAvatars
  /\ op' = [op EXCEPT ![p] = "AvatarCreate"]
  /\ \/ /\ req' = [req EXCEPT ![p].ok = FALSE]
        /\ Respond(p, BadRequest)
     \/ /\ \E u \in Users, n \in Names :
             req' = [req EXCEPT ![p].userId = u, ![p].name = n]
        /\ Goto(p, "avc_count")
        /\ UNCHANGED resp
  /\ UNCHANGED << cacheVars, loc, histVars, Others >>

\* h.db.Model(&AvatarProfile{}).Where("user_id = ?", userID).Count(&count)
AvatarCreateCount(p) ==
  /\ pc[p] = "avc_count"
  /\ loc' = [loc EXCEPT
               ![p].count = Cardinality(OfUser(db.avatars, req[p].userId))]
  /\ Goto(p, "avc_insert")
  /\ UNCHANGED << cacheVars, op, req, resp, histVars, Others >>

\* h.db.Create(&avatar), BeforeCreate drawing the id; c.JSON(201, avatar)
AvatarCreateInsert(p) ==
  /\ pc[p] = "avc_insert"
  /\ db' = [avatars |-> MapPut(db.avatars, db.uuids + 1,
                         AvatarRow(req[p].userId, req[p].name,
                                   FirstAvatar(loc[p].count))),
            uuids |-> db.uuids + 1]
  /\ Respond(p, AvatarCreated)
  /\ UNCHANGED << cacheVars, op, req, loc, histVars, tickPending, spc,
                  gemini >>

\* a request on /avatars/:id: c.Param("id"), the body bound later
AvatarByIdStart(p, h, l) ==
  /\ Free(p)
  /\ op' = [op EXCEPT ![p] = h]
  /\ \E id \in AvatarIds, ok \in BOOLEAN, n \in Names :
       /\ h # "AvatarUpdate" => (ok /\ n = "Me")
       /\ req' = [req EXCEPT ![p].avatarId = {id}, ![p].ok = ok,
                             ![p].name = n]
  /\ Goto(p, l)
  /\ UNCHANGED << cacheVars, loc, resp, histVars, Others >>

\* h.db.First(&avatar, "id = ?", id): 404 when there is no such row
AvatarFirst(p, at, next) ==
  /\ pc[p] = at
  /\ LET id == TheOne(req[p].avatarId)
     IN IF id \notin DOMAIN db.avatars
        THEN /\ Respond(p, AvatarMissing)
             /\ UNCHANGED loc
        ELSE /\ loc' = [loc EXCEPT ![p].avatar = {db.avatars[id]}]
             /\ IF req[p].ok THEN Goto(p, next) /\ UNCHANGED resp
                ELSE Respond(p, BadRequest)
  /\ UNCHANGED << cacheVars, op, req, histVars, Others >>

\* Update: the row is read, ShouldBindJSON after it
AvatarUpdateStart(p) == AvatarByIdStart(p, "AvatarUpdate", "avu_first")
AvatarUpdateFirst(p) == AvatarFirst(p, "avu_first", "avu_save")

\* avatar.Name = *req.Name; h.db.Save(&avatar): the row as it was read, with
\* the new name, is written back
AvatarUpdateSave(p) ==
  /\ pc[p] = "avu_save"
  /\ db' = [db EXCEPT !.avatars =
              Save(@, TheOne(req[p].avatarId),
                   [TheOne(loc[p].avatar) EXCEPT !.Name = req[p].name])]
  /\ Respond(p, AvatarOK)
  /\ UNCHANGED << cacheVars, op, req, loc, histVars, tickPending, spc,
                  gemini >>

\* Delete: h.db.Delete(&AvatarProfile{}, "id = ?", id); 404 when
\* RowsAffected == 0
AvatarDeleteStart(p) == AvatarByIdStart(p, "AvatarDelete", "avd_delete")
AvatarDeleteExec(p) ==
  /\ pc[p] = "avd_delete"
  /\ LET id == TheOne(req[p].avatarId)
     IN IF id \in DOMAIN db.avatars
        THEN /\ db' = [db EXCEPT !.avatars = MapDel(@, id)]
             /\ Respond(p, AvatarOK)
        ELSE /\ Respond(p, AvatarMissing)
             /\ UNCHANGED db
  /\ UNCHANGED << cacheVars, op, req, loc, histVars, tickPending, spc,
                  gemini >>

\* Activate: the row is read,
AvatarActivateStart(p) == AvatarByIdStart(p, "AvatarActivate", "ava_first")
AvatarActivateFirst(p) == AvatarFirst(p, "ava_first", "ava_deact")

\* the user's rows are all deactivated (the statement's error is not looked
\* at),
AvatarActivateDeactivate(p) ==
  /\ pc[p] = "ava_deact"
  /\ db' = [db EXCEPT !.avatars =
              Deactivate(@, TheOne(loc[p].avatar).UserID)]
  /\ Goto(p, "ava_save")
  /\ UNCHANGED << cacheVars, op, req, loc, resp, histVars, tickPending, spc,
                  gemini >>

\* and avatar.IsActive = true; h.db.Save(&avatar) writes the row as it was
\* read back, active
AvatarActivateSave(p) ==
  /\ pc[p] = "ava_save"
  /\ db' = [db EXCEPT !.avatars =
              Save(@, TheOne(req[p].avatarId),
                   [TheOne(loc[p].avatar) EXCEPT !.IsActive = TRUE])]
  /\ Respond(p, AvatarOK)
  /\ UNCHANGED << cacheVars, op, req, loc, histVars, tickPending, spc,
                  gemini >>

\* The avatar endpoints served by the request goroutines.
AvatarNext ==
  \/ \E p \in Procs : AvatarCreateStart(p)
  \/ \E p \in Procs : AvatarCreateCount(p)
  \/ \E p \in Procs : AvatarCreateInsert(p)
  \/ \E p \in Procs : AvatarUpdateStart(p)
  \/ \E p \in Procs : AvatarUpdateFirst(p)
  \/ \E p \in Procs : AvatarUpdateSave(p)
  \/ \E p \in Procs : AvatarDeleteStart(p)
  \/ \E p \in Procs : AvatarDeleteExec(p)
  \/ \E p \in Procs : AvatarActivateStart(p)
  \/ \E p \in Procs : AvatarActivateFirst(p)
  \/ \E p \in Procs : AvatarActivateDeactivate(p)
  \/ \E p \in Procs : AvatarActivateSave(p)
  \/ \E p \in Procs : Return(p)

AvatarSpec == Init /\ [][AvatarNext]_vars

TypeOK ==
  /\ DOMAIN entries \subseteq Ids
  /\ mu.writers \subseteq Procs \cup {Sweeper}
  /\ mu.readers \subseteq Procs

\* ---------------------------------------------------------- properties
\* the steps in which a cache operation of goroutine p returns
StoreReturns(p)  == pc[p] = "st_put" /\ pc'[p] # "st_put"
GetReturns(p)    == pc[p] = "get_read" /\ pc'[p] # "get_read"
DeleteReturns(p) == pc[p] = "del_rm" /\ pc'[p] # "del_rm"
SweepReturns     == spc = "scan" /\ spc' = "wait"
\* goroutine p takes a step
Steps(p) == pc'[p] # pc[p]

\* goroutine p has answered a well-formed request of handler h
Answered(p, h) == pc[p] = "done" /\ op[p] = h /\ req[p].ok

\* C1: round trip of the cache.  If Store(p, m) returned id, every Get(id)
\* that reads the map while the entry has not been taken out by a Delete and
\* is at most 30 minutes old returns found, with exactly the payload p and the
\* subtype m Store was called with, whatever else is interleaved.
RoundTrip ==
  [][\A p \in Procs :
       GetReturns(p) =>
         LET id == GetArg(p)
         IN (/\ fate[id] = "live"
             /\ id \in DOMAIN entries => entries[id].Age <= Expiry)
            => /\ loc'[p].exists
               /\ loc'[p].entry = stored[id]
               /\ loc'[p].entry # {}]_vars

\* a Get has found an entry that is exactly 30 minutes old, while the other
\* id has been stored and taken out again
RoundTripWitness ==
  \E p \in Procs, i, j \in Ids :
    /\ i # j
    /\ pc[p] \in {"rc_wait", "done"} /\ op[p] = "RefineCutout"
    /\ req[p].cacheId = {i}
    /\ loc[p].exists /\ loc[p].entry = stored[i] /\ stored[i] # {}
    /\ i \in DOMAIN entries /\ entries[i].Age = Expiry
    /\ fate[j] \in {"deleted", "swept"}

\* C2 as stated: in every reachable state an entry older than 30 minutes is
\* invisible: Get on it returns not-found and Delete on it returns false,
\* whether or not a sweep has run since it expired.
ExpiredInvisible ==
  \A id \in DOMAIN entries :
    entries[id].Age > Expiry =>
      /\ ~GetResult(entries, id).exists
      /\ ~DeleteReturn(id \in DOMAIN entries)

\* C2, amended: an entry is visible to Get and Delete from its Store until a
\* Delete or a sweep takes it out of the map, whatever its age; a sweep takes
\* out exactly the entries older than 30 minutes at that time.  So an entry
\* older than 30 minutes is hidden only once a sweep has run.
VisibleUntilRemoved ==
  /\ [](\A id \in Ids : id \in DOMAIN entries <=> fate[id] = "live")
  /\ [][/\ \A p \in Procs :
             GetReturns(p) =>
               (loc'[p].exists <=> GetArg(p) \in DOMAIN entries)
        /\ \A p \in Procs :
             DeleteReturns(p) =>
               (loc'[p].deleted <=> DeleteArg(p) \in DOMAIN entries)
        /\ SweepReturns =>
             DOMAIN entries' =
               {id \in DOMAIN entries : entries[id].Age <= Expiry}]_vars

\* a Delete holding the lock has found an entry that is older than 30
\* minutes, and is about to remove it and return true
ExpiredStillVisible ==
  \E p \in Procs :
    /\ pc[p] = "del_rm" /\ op[p] = "ClearImageCache"
    /\ loc[p].exists
    /\ DeleteArg(p) \in DOMAIN entries
    /\ entries[DeleteArg(p)].Age > Expiry

\* C3: rollback on generate failure.  When GenerateCutout has stored the
\* original and the provider call then fails (error, timeout, response with
\* no image), the error response is a 500 that carries no cacheId, the id the
\* request minted is not retrievable by then, and the request has removed no
\* other entry.
RollbackOnFailure ==
  /\ [](\A p \in Procs :
          (Answered(p, "GenerateCutout") /\ loc[p].called /\ loc[p].err) =>
            /\ resp[p].status = 500
            /\ resp[p].cacheId = {} /\ resp[p].image = ""
            /\ ~GetResult(entries, TheOne(loc[p].cacheID)).exists)
  /\ [][\A p \in Procs :
          (op[p] = "GenerateCutout" /\ Steps(p)) =>
            \A i \in DOMAIN entries \ loc'[p].cacheID :
              i \in DOMAIN entries' /\ entries'[i] = entries[i]]_vars

\* a generate request has answered 500 after a failed provider call; its own
\* id is gone and the other id's entry is still there
RollbackWitness ==
  \E p \in Procs, j \in Ids :
    /\ Answered(p, "GenerateCutout") /\ loc[p].called /\ loc[p].err
    /\ resp[p].status = 500
    /\ loc[p].cacheID # {j}
    /\ fate[TheOne(loc[p].cacheID)] = "deleted"
    /\ j \in DOMAIN entries

\* C4: session expired.  A RefineCutout whose cacheId is not in the cache
\* (never issued, cleared, rolled back or swept) is answered with a 4xx that
\* tells the caller to regenerate; no provider call is issued, no image is
\* returned, and the cache is left as it was.
SessionExpiredOnMiss ==
  /\ [](\A p \in Procs :
          (Answered(p, "RefineCutout") /\ ~loc[p].exists) =>
            /\ resp[p].status \in 400..499
            /\ resp[p].kind = "session-expired"
            /\ resp[p].image = ""
            /\ ~loc[p].called)
  /\ [][\A p \in Procs :
          /\ (GetReturns(p) /\ GetArg(p) \notin DOMAIN entries) =>
               ~loc'[p].exists /\ pc'[p] = "done"
          /\ (op[p] = "RefineCutout" /\ Steps(p)) =>
               entries' = entries]_vars

\* a refine has been turned away for an id whose entry a failed generate
\* rolled back
SessionExpiredWitness ==
  \E p \in Procs :
    /\ Answered(p, "RefineCutout") /\ ~loc[p].exists
    /\ resp[p] = SessionExpired
    /\ fate[GetArg(p)] = "deleted"
    /\ GetArg(p) \notin sessions
    /\ gemini = "configured"

\* the parts of the refine protocol that hold of every state: a generate
\* answered 200 by a working provider carries an image and the id it stored
\* under; a refine that found its entry and met no error is answered 200 with
\* an image and the id it was called with; an id some Delete returned true
\* for is not in the cache
ProtocolStates ==
  /\ \A p \in Procs :
       (Answered(p, "GenerateCutout") /\ resp[p].status = 200
          /\ gemini = "configured") =>
         /\ resp[p].image # ""
         /\ resp[p].cacheId = loc[p].cacheID
         /\ resp[p].cacheId # {} /\ resp[p].cacheId \subseteq sessions
  /\ \A p \in Procs :
       (Answered(p, "RefineCutout") /\ gemini = "configured"
          /\ loc[p].exists /\ ~loc[p].err) =>
         /\ resp[p].status = 200
         /\ resp[p].image # ""
         /\ resp[p].cacheId = req[p].cacheId
  /\ \A id \in Ids : delTrue[id] >= 1 => id \notin DOMAIN entries

\* a refine whose Get reads the map after some clear of its id has returned
\* success=true fails with session-expired
FailsAfterClear(p) ==
  (GetReturns(p) /\ delTrue[GetArg(p)] >= 1) =>
    (resp'[p] = SessionExpired /\ pc'[p] = "done")

\* C5 as stated: with a working provider generate returns an image and an id
\* C; every later refine(C) succeeds and returns C; once clear(C) has returned
\* success=true every refine(C) that starts afterwards fails with
\* session-expired, and C is never live again.
RefineProtocol_Literal ==
  /\ []ProtocolStates
  /\ [][\A p \in Procs :
          /\ FailsAfterClear(p)
          /\ (GetReturns(p) /\ gemini = "configured"
                /\ GetArg(p) \in sessions /\ delTrue[GetArg(p)] = 0) =>
               loc'[p].exists]_vars

\* C5, amended: as stated, except that a later refine(C) succeeds only while
\* C's entry is still in the cache: no clear has removed it and no sweep
\* either (the sweep removes entries older than 30 minutes).
RefineProtocol ==
  /\ []ProtocolStates
  /\ [][\A p \in Procs :
          /\ FailsAfterClear(p)
          /\ (GetReturns(p) /\ gemini = "configured"
                /\ GetArg(p) \in sessions /\ fate[GetArg(p)] = "live") =>
               loc'[p].exists]_vars

\* a refine was answered 200 with its id, and a clear of that id has since
\* returned success=true
RefineProtocolWitness ==
  \E p, q \in Procs :
    /\ p # q
    /\ gemini = "configured"
    /\ Answered(p, "RefineCutout") /\ resp[p].status = 200
    /\ resp[p].cacheId = req[p].cacheId /\ req[p].cacheId \subseteq sessions
    /\ Answered(q, "ClearImageCache") /\ loc[q].deleted
    /\ req[q].cacheId = req[p].cacheId

\* what holds of every Delete and Get once some Delete(id) has returned true
AfterDeleteTrue(p) ==
  /\ (DeleteReturns(p) /\ delTrue[DeleteArg(p)] >= 1) => ~loc'[p].deleted
  /\ (GetReturns(p) /\ delTrue[GetArg(p)] >= 1) => ~loc'[p].exists

\* C6 as stated: for every id Store returned, over any interleaving of
\* Delete(id) calls, exactly one Delete(id) returns true; every Delete(id)
\* after it returns false and every Get(id) after it returns not-found.
DeleteExactlyOnce_Literal ==
  /\ [](\A id \in Ids : delTrue[id] <= 1)
  /\ [][\A p \in Procs :
          /\ AfterDeleteTrue(p)
          /\ (DeleteReturns(p) /\ fate[DeleteArg(p)] # "none") =>
               delTrue'[DeleteArg(p)] = 1]_vars

\* C6, amended: as stated for every id whose entry no sweep has removed; for
\* an id whose entry a sweep removed first, every Delete(id) returns false.
DeleteExactlyOnce ==
  /\ [](\A id \in Ids : delTrue[id] <= 1)
  /\ [][\A p \in Procs :
          /\ AfterDeleteTrue(p)
          /\ (DeleteReturns(p)
                /\ fate[DeleteArg(p)] \in {"live", "deleted"}) =>
               delTrue'[DeleteArg(p)] = 1
          /\ (DeleteReturns(p) /\ fate[DeleteArg(p)] = "swept") =>
               ~loc'[p].deleted /\ delTrue'[DeleteArg(p)] = 0]_vars

\* two Deletes of one id: the first has returned true, the second holds the
\* lock, has found nothing and is about to return false
DeleteExactlyOnceWitness ==
  \E p, q \in Procs :
    /\ p # q
    /\ Answered(p, "ClearImageCache") /\ loc[p].deleted
    /\ pc[q] = "del_rm" /\ op[q] = "ClearImageCache" /\ ~loc[q].exists
    /\ req[q].cacheId = req[p].cacheId
    /\ delTrue[GetArg(p)] = 1

\* C7: sweep invariant.  An entry whose age is strictly greater than 30
\* minutes when a sweep runs is out of the map when that sweep completes;
\* from then on Get on its id returns not-found, and the id is never
\* populated again.
SweepInvariant ==
  /\ [](\A id \in Ids : fate[id] = "swept" => id \notin DOMAIN entries)
  /\ [][/\ SweepReturns =>
             \A id \in DOMAIN entries :
               entries[id].Age > Expiry =>
                 id \notin DOMAIN entries' /\ fate'[id] = "swept"
        /\ \A p \in Procs :
             (GetReturns(p) /\ fate[GetArg(p)] = "swept") =>
               ~loc'[p].exists]_vars

\* a refine has been turned away for a swept id while the other id's entry
\* is in the cache
SweepInvariantWitness ==
  \E p \in Procs, j \in Ids :
    /\ Answered(p, "RefineCutout") /\ ~loc[p].exists
    /\ fate[GetArg(p)] = "swept"
    /\ j # GetArg(p) /\ j \in DOMAIN entries
    /\ spc = "wait"

\* who is inside a critical section over c.entries
InWrite ==
  {p \in Procs : pc[p] \in {"st_put", "del_check", "del_rm"}}
    \cup (IF spc = "scan" THEN {Sweeper} ELSE {})
InRead == {p \in Procs : pc[p] \in {"get_read", "cnt_read"}}

\* C8: mutual exclusion on the cache map.  While Store, Delete or the sweep
\* is inside its critical section no other cache operation is inside its
\* own; only Get and Count overlap with each other.
MutualExclusion ==
  /\ Cardinality(InWrite) <= 1
  /\ InWrite # {} => InRead = {}

\* a Delete is inside its critical section while another goroutine and the
\* sweep both wait for the lock
MutualExclusionWitness ==
  \E p, q \in Procs :
    /\ pc[p] = "del_rm"
    /\ pc[q] \in {"st_lock", "get_rlock", "del_lock", "cnt_rlock"}
    /\ tickPending /\ spc = "wait"

\* C9: linearizability of the cache.  Every Store, Get, Delete, Count and
\* sweep returns what the sequential map returns at one instant between its
\* call and its return, and the map is the sequential map after it; a Get
\* returns a complete entry (payload, subtype and age from one Store) or
\* not-found.
Linearizable ==
  /\ entries = abs
  /\ \A p \in Procs : loc[p].lin
  /\ \A p \in Procs :
       pc[p] \in {"rc_wait", "done"} /\ op[p] = "RefineCutout" =>
         loc[p].entry \in {{}} \cup {stored[i] : i \in Ids}
                               \cup {{[OriginalImageBase64 |-> u.img,
                                       MimeType |-> u.mime]} : u \in Uploads}

\* a Get waits for the lock while the sweep that is about to remove its
\* entry holds it
LinearizableWitness ==
  \E p \in Procs :
    /\ pc[p] = "get_rlock" /\ spc = "scan"
    /\ GetArg(p) \in DOMAIN entries
    /\ Expired(entries[GetArg(p)])

\* C11: the TTL is absolute.  Get leaves the map and every entry's creation
\* time as they were: an entry's age is 0 at its Store and grows only with
\* the clock, and a sweep removes an entry exactly when that age exceeds 30
\* minutes, however often and however recently the entry was read.
AbsoluteTTL ==
  [][/\ \A p \in Procs :
          (pc[p] \in {"get_rlock", "get_read"} /\ Steps(p)) =>
            entries' = entries
     /\ \A p \in Procs :
          StoreReturns(p) =>
            \A id \in DOMAIN entries' \ DOMAIN entries :
              entries'[id].Age = 0
     /\ \A id \in DOMAIN entries \cap DOMAIN entries' :
          entries'[id].Age # entries[id].Age =>
            entries' = Older(entries, ClockStep)
     /\ SweepReturns =>
          \A id \in DOMAIN entries :
            id \notin DOMAIN entries' <=> entries[id].Age > Expiry]_vars

\* a refine read an entry, and a sweep has removed that entry since
AbsoluteTTLWitness ==
  \E p \in Procs :
    /\ Answered(p, "RefineCutout") /\ loc[p].exists
    /\ resp[p].status = 200
    /\ fate[GetArg(p)] = "swept"

\* the AI endpoints
Endpoints ==
  { "AnalyzeClothing", "RefineAnalysis", "GenerateCutout", "RefineCutout",
    "ClearImageCache", "GenerateAvatar", "GenerateCollage", "VirtualTryOn" }

\* C12 as stated: while the provider is unconfigured, every endpoint answers
\* every well-formed request with HTTP 200, whatever the request holds.
DegradedAlways200 ==
  \A p \in Procs, h \in Endpoints :
    (gemini = "nil" /\ Answered(p, h)) => resp[p].status = 200

\* C12: while the provider is unconfigured no endpoint calls it, and every
\* endpoint answers every well-formed request with HTTP 200 (all but
\* clear-cache with a placeholder payload), except refine-cutout for a
\* cacheId that is not in the cache, which is answered 400 "session
\* expired".
DegradedStatus ==
  \A p \in Procs, h \in Endpoints :
    (gemini = "nil" /\ Answered(p, h)) =>
      /\ loc[p].calls = 0
      /\ IF h = "RefineCutout" /\ ~loc[p].exists
         THEN resp[p] = SessionExpired
         ELSE /\ resp[p].status = 200
              /\ h # "ClearImageCache" => resp[p].kind = "placeholder"

\* unconfigured: a refine-cutout for an unknown cacheId has been answered
\* 400 while a try-on with an undecodable avatar has been answered 200
DegradedStatusWitness ==
  \E p, q \in Procs :
    /\ gemini = "nil"
    /\ Answered(p, "RefineCutout") /\ ~loc[p].exists
    /\ resp[p].status = 400
    /\ Answered(q, "VirtualTryOn") /\ req[q].img = Malformed
    /\ resp[q].status = 200

\* C13: while the provider is unconfigured, analyze answers every image with
\* the same fixed placeholder taxonomy (Tops, White, Cotton) and status 200,
\* without a provider call: two analyze requests get identical responses
\* whatever their images.
DeterministicPlaceholder ==
  \A p, q \in Procs :
    (gemini = "nil" /\ Answered(p, "AnalyzeClothing")) =>
      /\ resp[p].status = 200
      /\ resp[p].analysis = "Tops/White/Cotton"
      /\ ~loc[p].called /\ loc[p].calls = 0 /\ loc[p].got = {}
      /\ Answered(q, "AnalyzeClothing") => resp[q] = resp[p]

\* unconfigured: two analyze requests, one with a decodable and one with an
\* undecodable image, have been answered
DeterministicPlaceholderWitness ==
  \E p, q \in Procs :
    /\ gemini = "nil"
    /\ Answered(p, "AnalyzeClothing") /\ req[p].img = "imgA"
    /\ Answered(q, "AnalyzeClothing") /\ req[q].img = Malformed
    /\ resp[p].kind = "placeholder" /\ resp[q].kind = "placeholder"

\* C14 as stated: a refine-analysis request whose payload decodes is always
\* answered with a success status and an analysis, whatever the provider
\* call made for it came back with; no provider error reaches the caller.
RefineNeverFails ==
  \A p \in Procs :
    (Answered(p, "RefineAnalysis") /\ loc[p].called) =>
      resp[p].status = 200 /\ resp[p].kind = "ok"

\* the provider answered the refine call with a response without candidates;
\* no fallback call was made and the request has ended in the recovered
\* panic's 500
RefinePanics ==
  \E p \in Procs :
    /\ Answered(p, "RefineAnalysis")
    /\ loc[p].got = {Response(<< >>)} /\ loc[p].calls = 1
    /\ resp[p] = Panicked

\* C15 as stated: with the provider configured, a payload that does not
\* decode causes neither a provider call nor a cache entry: every entry in
\* the map, at every moment, holds a payload that decodes, and every request
\* that has called the provider sent one.
DecodeBeforeEffects ==
  gemini = "configured" =>
    /\ \A id \in DOMAIN entries :
         decodeBase64Image(entries[id].OriginalImageBase64) = "ok"
    /\ \A p \in Procs :
         (op[p] = "GenerateCutout" /\ loc[p].called) =>
           decodeBase64Image(req[p].img) = "ok"

\* a generate-cutout whose payload is malformed and shorter than 30
\* characters has ended in the recovered panic, and the entry Store inserted
\* for it is still in the map
OrphanAfterPanic ==
  \E p \in Procs :
    /\ Answered(p, "GenerateCutout") /\ resp[p] = Panicked
    /\ req[p].img = MalformedShort
    /\ loc[p].cacheID \subseteq DOMAIN entries /\ loc[p].cacheID # {}
    /\ entries[TheOne(loc[p].cacheID)].OriginalImageBase64 = MalformedShort

\* C16 as stated: with the provider configured, a request whose image
\* payload is malformed base64, of whatever length, is answered with a 4xx
\* status.
DecodeFailureIs4xx ==
  \A p \in Procs :
    (/\ gemini = "configured"
     /\ \/ Answered(p, "AnalyzeClothing")
        \/ Answered(p, "RefineAnalysis")
        \/ Answered(p, "GenerateAvatar")
        \/ Answered(p, "VirtualTryOn")
     /\ req[p].img \in {Malformed, MalformedShort})
    => resp[p].status \in 400..499

\* an analyze request with a malformed payload shorter than 30 characters has
\* ended in the recovered panic's 500, one with a longer malformed payload in
\* the handler's 500, neither after a provider call
DecodeFailureIs500 ==
  \E p, q \in Procs :
    /\ Answered(p, "AnalyzeClothing") /\ req[p].img = MalformedShort
    /\ resp[p] = Panicked /\ loc[p].calls = 0
    /\ Answered(q, "AnalyzeClothing") /\ req[q].img = Malformed
    /\ resp[q] = ServerError /\ loc[q].calls = 0

\* the step in which goroutine p issues a provider call
Calls(p) == loc'[p].calls > loc[p].calls

\* C17 as stated: within one request no provider call is issued after one
\* has failed or timed out: a request that has had a call fail or time out
\* has issued that call only.
NoFurtherCall ==
  \A p \in Procs :
    (\E o \in loc[p].got : o.kind \in {"error", "timeout"}) =>
      loc[p].calls = 1

\* C17: every provider call is issued under the deadline of its operation's
\* budget (30 s analyze and refine-analysis, 60 s the cutouts and the
\* collage, 90 s avatar and try-on); a request whose call ran into the
\* deadline ends with a server error; and a request issues one call, except
\* refine-analysis, which after a refine call that failed, timed out or did
\* not parse issues exactly one more, under the same deadline.
DeadlineAndRetry ==
  /\ [](\A p \in Procs :
          /\ loc[p].calls > 0 =>
               loc[p].budget =
                 CASE op[p] = "AnalyzeClothing" -> 30
                   [] op[p] = "RefineAnalysis"  -> 30
                   [] op[p] = "GenerateCutout"  -> 60
                   [] op[p] = "RefineCutout"    -> 60
                   [] op[p] = "GenerateAvatar"  -> 90
                   [] op[p] = "GenerateCollage" -> 60
                   [] op[p] = "VirtualTryOn"    -> 90
          /\ (pc[p] = "done" /\ loc[p].ctxDone) =>
               resp[p].status = 500 /\ resp[p].kind = "error"
          /\ loc[p].calls <= IF op[p] = "RefineAnalysis" THEN 2 ELSE 1)
  /\ [][\A p \in Procs :
          (Calls(p) /\ loc[p].calls > 0) =>
            /\ op[p] = "RefineAnalysis" /\ pc[p] = "ra_wait"
            /\ loc'[p].calls = 2
            /\ loc'[p].budget = loc[p].budget]_vars

\* a refine-analysis call has run into the deadline and the fallback call
\* is in flight, while a generate-cutout whose call ran into the deadline
\* has been answered 500
DeadlineAndRetryWitness ==
  \E p, q \in Procs :
    /\ pc[p] = "ra_fallback" /\ loc[p].got = {Failed("timeout")}
    /\ loc[p].calls = 2 /\ loc[p].ctxDone
    /\ Answered(q, "GenerateCutout") /\ loc[q].ctxDone
    /\ resp[q].status = 500

\* C18: with the provider configured, a collage request has called the
\* provider only if at least one of its images decodes; a request whose list
\* is empty or holds no image that decodes is answered with an error, no
\* provider call made.
CollagePrecondition ==
  \A p \in Procs :
    (gemini = "configured" /\ op[p] = "GenerateCollage" /\ req[p].ok) =>
      LET items == req[p].items
          some  == \E i \in 1..Len(items) : Base64Valid(items[i])
      IN /\ loc[p].calls > 0 => some
         /\ loc[p].called => some
         /\ (pc[p] = "done" /\ ~some) =>
              /\ resp[p] = ServerError
              /\ loc[p].calls = 0 /\ loc[p].got = {}

\* a collage of two undecodable images has been answered with the error
\* without a call, while a collage of an undecodable and a decodable image
\* has called the provider with one image
CollagePreconditionWitness ==
  \E p, q \in Procs :
    /\ Answered(p, "GenerateCollage")
    /\ req[p].items = << MalformedShort, Malformed >>
    /\ resp[p].status = 500 /\ loc[p].calls = 0
    /\ op[q] = "GenerateCollage" /\ req[q].items = << Malformed, "imgA" >>
    /\ loc[q].calls = 1 /\ loc[q].parts = 1

\* the handlers that answer with the image of a provider response
ImageHandlers == {"GenerateAvatar", "GenerateCollage", "VirtualTryOn"}

\* C19: a request on an image path whose provider call came back with a
\* response is answered with the bytes of the first binary part of the
\* response's first candidate, in part order, base64-encoded; if the response
\* has no candidate, or its first candidate has no binary part, the request
\* is answered with an error and no image.
FirstBinaryPart ==
  \A p \in Procs, h \in ImageHandlers, o \in ImageOutcomes :
    (Answered(p, h) /\ loc[p].got = {o} /\ o.kind = "resp") =>
      LET c == o.candidates
      IN IF Len(c) > 0 /\ \E i \in 1..Len(c[1]) : c[1][i].kind = "blob"
         THEN \E i \in 1..Len(c[1]) :
                /\ c[1][i].kind = "blob"
                /\ \A j \in 1..(i - 1) : c[1][j].kind # "blob"
                /\ resp[p].status = 200 /\ resp[p].kind = "ok"
                /\ resp[p].image = EncodeToString(c[1][i].data)
         ELSE /\ resp[p].status = 500 /\ resp[p].kind = "error"
              /\ resp[p].image = ""

\* an avatar request whose response held a text and two blobs in its only
\* candidate has been answered with the first blob, and a collage request
\* whose response held a blob in its second candidate only with an error
FirstBinaryPartWitness ==
  \E p, q \in Procs :
    /\ Answered(p, "GenerateAvatar")
    /\ loc[p].got =
         {Response(<< << Text(<< Prose >>), Blob("first"),
                        Blob("second") >> >>)}
    /\ resp[p].image = "b64:first"
    /\ Answered(q, "GenerateCollage")
    /\ loc[q].got =
         {Response(<< << Text(<< Prose >>) >>, << Blob("second") >> >>)}
    /\ resp[q].status = 500

\* a text without its code fences and white space
Stripped(text) ==
  SelectSeq(text, LAMBDA k : k \notin {Space, Fence, FenceJSON})
\* what is left is one JSON object
Conforming(text) == Stripped(text) \in {<< ObjectJSON >>, << EmptyJSON >>}

\* C20: an analyze request whose provider call came back with a text that,
\* its code fences stripped, is not a JSON object is answered with a server
\* error after that one call: no second call, no placeholder, no analysis.
\* A text that is a JSON object once stripped is answered with its analysis.
ParseFailureIsHard ==
  \A p \in Procs, o \in AnalysisOutcomes :
    (/\ Answered(p, "AnalyzeClothing") /\ loc[p].got = {o}
     /\ o.kind = "resp" /\ Len(o.candidates) > 0
     /\ Len(o.candidates[1]) > 0) =>
      IF Conforming(extractTextFromParts(o.candidates[1]))
      THEN resp[p].status = 200 /\ resp[p].kind = "ok"
      ELSE /\ resp[p] = ServerError
           /\ resp[p].analysis = ""
           /\ loc[p].calls = 1

\* an analyze request whose provider call came back with fenced prose has
\* been answered with the server error, after one call
ParseFailureIsHardWitness ==
  \E p \in Procs :
    /\ Answered(p, "AnalyzeClothing")
    /\ loc[p].got =
         {Response(<< << Text(<< FenceJSON, Prose, Fence >>) >> >>)}
    /\ resp[p].status = 500 /\ loc[p].calls = 1

\* C21: clear is total and truthful.  Whatever the cacheId of a clear-cache
\* request (live, older than 30 minutes, already cleared or swept, never
\* handed out), the step in which its Delete returns answers 200, leaves the
\* id absent from the map, reports success exactly if the id was in the map
\* before the step, and leaves every other entry as it was.
ClearTotalTruthful ==
  [][\A p \in Procs :
       (DeleteReturns(p) /\ op[p] = "ClearImageCache") =>
         LET id == TheOne(req[p].cacheId)
         IN /\ resp'[p].status = 200 /\ pc'[p] = "done"
            /\ id \notin DOMAIN entries'
            /\ resp'[p].success <=> id \in DOMAIN entries
            /\ DOMAIN entries' = DOMAIN entries \ {id}
            /\ \A j \in DOMAIN entries' : entries'[j] = entries[j]]_vars

\* a clear is about to remove an entry older than 30 minutes, while a clear
\* of an id that was never handed out has been answered success = false,
\* with another entry in the map
ClearTotalTruthfulWitness ==
  \E p, q \in Procs :
    /\ pc[p] = "del_rm" /\ op[p] = "ClearImageCache" /\ loc[p].exists
    /\ TheOne(req[p].cacheId) \in DOMAIN entries
    /\ entries[TheOne(req[p].cacheId)].Age > Expiry
    /\ Answered(q, "ClearImageCache") /\ resp[q].status = 200
    /\ ~resp[q].success

\* C22: refine does not change the cache.  No step of a refine-cutout
\* request adds, removes or modifies an entry (payload, subtype and age of
\* every entry are the same after the step), whether the request ends in
\* success or not; and a request answered 200 echoes the cacheId it was
\* given.
RefineLeavesCache ==
  /\ [][\A p \in Procs :
          (Steps(p) /\ op'[p] = "RefineCutout") => entries' = entries]_vars
  /\ [](\A p \in Procs :
          (Answered(p, "RefineCutout") /\ resp[p].status = 200) =>
             resp[p].cacheId = req[p].cacheId /\ resp[p].cacheId # {})

\* two refines of the same id have been answered, one with the refined
\* image and one with the provider's error, and the entry is in the map as
\* both read it
RefineLeavesCacheWitness ==
  \E p, q \in Procs :
    /\ Answered(p, "RefineCutout") /\ resp[p].kind = "ok"
    /\ Answered(q, "RefineCutout") /\ resp[q].status = 500 /\ loc[q].called
    /\ req[p].cacheId = req[q].cacheId
    /\ GetArg(p) \in DOMAIN entries
    /\ loc[p].entry = stored[GetArg(p)] /\ loc[q].entry = loc[p].entry

\* a payload that decodes once a data-URI header, if it has one, is taken off
DecodesBare(s) == AfterComma(s) = "imgA"

\* C23 as stated: with the provider configured, a data-URI header never
\* changes whether an image counts as decodable: a request has gone on to the
\* provider call exactly if its image (for a collage: one of its images; for
\* a try-on: its avatar) decodes with the header taken off.
PrefixUniform ==
  \A p \in Procs :
    (gemini = "configured" /\ req[p].ok) =>
      /\ (/\ op[p] \in {"AnalyzeClothing", "RefineAnalysis",
                        "GenerateAvatar", "VirtualTryOn"}
          /\ pc[p] # "idle")
         => (loc[p].called <=> DecodesBare(req[p].img))
      /\ (op[p] = "GenerateCollage" /\ pc[p] # "idle")
         => (loc[p].called <=>
               \E i \in 1..Len(req[p].items) : DecodesBare(req[p].items[i]))

\* an analyze request whose image has a data-URI header has called the
\* provider, while a collage of that same image has been answered with the
\* error, without a call
PrefixNotStripped ==
  \E p, q \in Procs :
    /\ op[p] = "AnalyzeClothing" /\ req[p].img = DataURI /\ loc[p].called
    /\ Answered(q, "GenerateCollage") /\ req[q].items = << DataURI >>
    /\ resp[q] = ServerError /\ loc[q].calls = 0

\* C24: eventual eviction.  While time advances, the ticker fires and the
\* cleanup goroutine is scheduled, every entry in the map is eventually
\* absent from it, taken out by a Delete or by a sweep.
EventualEviction ==
  \A id \in Ids : (id \in DOMAIN entries) ~> (id \notin DOMAIN entries)

\* an entry nobody cleared has outlived Expiry and a sweep has taken it out
EvictedBySweep ==
  \E id \in Ids :
    /\ fate[id] = "swept"
    /\ id \notin DOMAIN entries
    /\ delTrue[id] = 0

\* C25: facade sequencing.  A generate request that has issued its provider
\* call has its Store behind it: Store has returned the id to the handler
\* and the request is at no step of Store.  A refine request that has issued
\* its provider call has its Get behind it, and that Get returned an entry
\* (exists = true): no refine request has called the provider without a
\* successful lookup before.
FacadeSequencing ==
  \A p \in Procs :
    loc[p].calls > 0 =>
      /\ op[p] = "GenerateCutout" =>
            /\ loc[p].cacheID # {}
            /\ pc[p] \notin {"st_lock", "st_put"}
      /\ op[p] = "RefineCutout" =>
            /\ loc[p].exists
            /\ loc[p].entry # {}
            /\ pc[p] \notin {"get_rlock", "get_read"}
            /\ p \notin mu.readers

\* one request waits for the provider after its Store, another after its Get
FacadeSequencingWitness ==
  \E p, q \in Procs :
    /\ op[p] = "GenerateCutout" /\ pc[p] = "gc_wait" /\ loc[p].calls = 1
    /\ op[q] = "RefineCutout" /\ pc[q] = "rc_wait" /\ loc[q].calls = 1
    /\ loc[q].exists

\* C26: the cache lock is never held across a provider call.  A request
\* that waits for the provider holds the mutex neither as writer nor as
\* reader, so whoever holds or can take the mutex meanwhile is another
\* goroutine.
NoLockAcrossCall ==
  \A p \in Procs :
    pc[p] \in {"gc_wait", "rc_wait"} => p \notin mu.writers \cup mu.readers

\* while one request waits for the provider, another is inside Store with
\* the write lock
NoLockAcrossCallWitness ==
  \E p, q \in Procs :
    /\ pc[p] = "gc_wait"
    /\ pc[q] = "st_put"
    /\ mu.writers = {q}

\* goroutine p produces the success response of a refine-cutout request
RefineSucceeds(p) ==
  /\ op[p] = "RefineCutout"
  /\ pc[p] # "done" /\ pc'[p] = "done"
  /\ resp'[p].status = 200

\* C27 as stated: when a refine-cutout request answers success echoing its
\* cacheId, the entry is in the map at that moment.
EchoedIdUsable ==
  [][\A p \in Procs :
       RefineSucceeds(p) => resp'[p].cacheId \subseteq DOMAIN entries']_vars

\* C27: a refine-cutout request that has answered success echoes the
\* cacheId it was given, its own Get has found the entry, and the entry is
\* in the map unless a Delete or a sweep has taken it out since that Get.
EchoedIdWasFound ==
  \A p \in Procs :
    (Answered(p, "RefineCutout") /\ resp[p].status = 200) =>
      /\ resp[p].cacheId = req[p].cacheId
      /\ loc[p].exists
      /\ \A id \in resp[p].cacheId :
           \/ id \in DOMAIN entries
           \/ fate[id] \in {"deleted", "swept"}

\* a refine-cutout request waits for the provider with the entry it has
\* read, and a clear has taken that entry out of the map meanwhile
EchoedIdCleared ==
  \E p \in Procs :
    /\ op[p] = "RefineCutout" /\ pc[p] = "rc_wait" /\ loc[p].exists
    /\ \A id \in req[p].cacheId :
         id \notin DOMAIN entries /\ fate[id] = "deleted"

\* goroutine p has answered a refine-cutout request with the server error
\* after its provider call failed
FailedRefine(p) ==
  /\ Answered(p, "RefineCutout")
  /\ resp[p] = ServerError
  /\ loc[p].calls = 1

\* C28: a failed refine keeps the session.  A refine-cutout request whose
\* provider call fails answers with the server error and leaves the map as
\* it is; a Get of the same cacheId that returns after that failure, the
\* entry neither deleted nor swept, finds the original that was stored.
FailedRefineKeepsSession ==
  /\ [][\A p \in Procs :
          (op[p] = "RefineCutout" /\ pc[p] = "rc_wait" /\ pc'[p] = "done"
             /\ resp'[p].status # 200) =>
            /\ resp'[p] = ServerError
            /\ entries' = entries
            /\ fate' = fate]_vars
  /\ [][\A p, q \in Procs :
          (/\ FailedRefine(p)
           /\ GetReturns(q)
           /\ req[q].cacheId = req[p].cacheId
           /\ fate[GetArg(q)] = "live") =>
            /\ loc'[q].exists
            /\ loc'[q].entry = stored[GetArg(q)]]_vars

\* a refine-cutout request has failed at the provider, and a second one for
\* the same cacheId is inside Get with the entry still in the map
FailedRefineKeepsSessionWitness ==
  \E p, q \in Procs :
    /\ FailedRefine(p)
    /\ op[q] = "RefineCutout" /\ pc[q] = "get_read"
    /\ req[q].cacheId = req[p].cacheId
    /\ fate[GetArg(q)] = "live"
    /\ GetArg(q) \in DOMAIN entries

\* goroutine p answers a generate-cutout request with the placeholder
StagesPlaceholder(p) ==
  /\ op[p] = "GenerateCutout"
  /\ pc[p] # "done" /\ pc'[p] = "done"
  /\ resp'[p].kind = "placeholder"

\* C29: staging in degraded mode.  With the provider unconfigured, the step
\* in which generate-cutout answers with the placeholder is the return of its
\* Store: the cacheId of the answer is in the map with the uploaded image and
\* subtype.  From then on a Get of that id finds that original, and the id
\* leaves the map only by the Delete of a clear-cache request for it or by a
\* sweep that finds it older than Expiry.
DegradedStaging ==
  /\ [][\A p \in Procs :
          StagesPlaceholder(p) =>
            /\ Unconfigured(gemini)
            /\ StoreReturns(p)
            /\ loc'[p].calls = 0
            /\ \E id \in DOMAIN entries' \ DOMAIN entries :
                 /\ resp'[p].cacheId = {id}
                 /\ entries'[id].OriginalImageBase64 = req[p].img
                 /\ entries'[id].MimeType = req[p].mime
                 /\ entries'[id].Age = 0]_vars
  /\ [][Unconfigured(gemini) =>
          /\ \A id \in DOMAIN entries \ DOMAIN entries' :
               \/ SweepReturns /\ entries[id].Age > Expiry
               \/ \E q \in Procs :
                    /\ DeleteReturns(q)
                    /\ op[q] = "ClearImageCache"
                    /\ req[q].cacheId = {id}
          /\ \A q \in Procs :
               (GetReturns(q) /\ GetArg(q) \in sessions
                  /\ fate[GetArg(q)] = "live") =>
                 /\ loc'[q].exists
                 /\ loc'[q].entry = stored[GetArg(q)]]_vars
  /\ [](Unconfigured(gemini) =>
          \A id \in sessions :
            id \in DOMAIN entries \/ fate[id] \in {"deleted", "swept"})

\* unconfigured: a generate-cutout request stands answered with the
\* placeholder, and a refine-cutout request for the id it handed out has
\* found the entry
DegradedStagingWitness ==
  \E p, q \in Procs :
    /\ Unconfigured(gemini)
    /\ Answered(p, "GenerateCutout") /\ resp[p].kind = "placeholder"
    /\ resp[p].cacheId \subseteq DOMAIN entries
    /\ Answered(q, "RefineCutout") /\ req[q].cacheId = resp[p].cacheId
    /\ loc[q].exists /\ resp[q].status = 200

\* C30: single active avatar.  In the avatar table, at most one row of a
\* user has IsActive = true, whatever Create, Update, Delete and Activate
\* requests have run or are running.
SingleActiveAvatar ==
  \A u \in Users :
    Cardinality({i \in OfUser(db.avatars, u) : db.avatars[i].IsActive}) <= 1

\* no avatar request is in flight and two rows of one user are active
TwoActiveAvatars ==
  /\ \A p \in Procs : pc[p] = "idle"
  /\ \E u \in Users :
       Cardinality({i \in OfUser(db.avatars, u) : db.avatars[i].IsActive})
         = 2

====
